---- MODULE Spec2Model ----
(***************************************************************************)
(* rust-di: ServiceProvider (src/src/lib.rs).                              *)
(*                                                                         *)
(* The provider owns two maps keyed by TypeId: `factories` (one-shot       *)
(* constructors, removed from the map when they are run) and `instances`   *)
(* (an insert-only map of shared handles).  resolve::<T>() looks T up in   *)
(* `instances`, otherwise removes the factory held under T and runs it;    *)
(* the factory receives the provider and may call resolve again            *)
(* (reentrancy), so one resolve call is several steps here, with an        *)
(* explicit call stack.                                                    *)
(*                                                                         *)
(* new keys each factory by `f.type_id()` with f: Box<dyn Factory>.  With  *)
(* std::any::Any in scope that call is Any::type_id of the Box itself, not *)
(* Factory::type_id of the closure in it, so every factory is filed under  *)
(* the one key TypeId::of::<Box<dyn Factory>>(), whatever type it builds.  *)
(* resolve then downcasts what the factory built to the requested type     *)
(* with `expect`, which panics when the two types differ.                  *)
(*                                                                         *)
(* A factory is an FnOnce closure whose body is arbitrary user code: what  *)
(* it resolves, whether it propagates or swallows a failed resolve, and    *)
(* what it returns are chosen nondeterministically as it runs.             *)
(***************************************************************************)
EXTENDS Naturals, Sequences, FiniteSets, TLC

\* ------------------------------------------------------------- bounds
\* Longest sequence of factories handed to ServiceProvider::new.
MaxFactories == 3
\* Most resolve calls one factory body makes.
MaxCalls == 2
\* Most top-level resolve calls made on one provider.
MaxTop == 3

\* The type Box<dyn Factory>, whose TypeId new uses as the key of every factory.
BoxDynFactory == "Box<dyn Factory>"
\* The types (TypeId values) a caller can name and a factory can build.
Types == {"A", "B", BoxDynFactory}
\* The domain errors a factory body can return (Box<dyn Error>).
DomainErrors == {"E1", "E2"}

VARIABLES
    registered,  \* the sequence of factories given to new: registered[i] is the type factory i builds
    factories,   \* ServiceProvider.factories: TypeId -> index of the factory held under it
    instances,   \* ServiceProvider.instances: TypeId -> stored handle
    stack,       \* the resolve calls whose factories are now running, outermost first
    req,         \* the TypeId of a resolve call that was just made and has not looked anything up yet
    fret,        \* the Result the running factory (top of stack) has just returned to resolve
    ret,         \* the outcome a resolve call has just handed to its caller: a Result or a panic
    topreq,      \* the TypeId of the top-level resolve call in progress
    ntop,        \* number of top-level resolve calls made so far
    nalloc,      \* number of Rc allocations made so far (handle identities)
    invoked,     \* invoked[i]: how many times factory i was run
    produced,    \* produced[i]: the handle made from the value factory i returned
    returned,    \* every handle a resolve call has returned with Ok, and how it got it
    failed,      \* every factory run that returned Err: the requested type and the handles it held
    kept         \* every stored entry that was there when some resolve call returned Err

vars == <<registered, factories, instances, stack, req, fret, ret, topreq,
          ntop, nalloc, invoked, produced, returned, failed, kept>>

\* ------------------------------------------------------------- values
None == "none"
NoRet == [tag |-> "none"]
Ok(v) == [tag |-> "ok", val |-> v]
Err(e) == [tag |-> "err", err |-> e]
\* The outcome of a resolve call whose `expect` failed: the call panics.
Panic == [tag |-> "panic"]
NoVal == [id |-> 0]

Top(s) == s[Len(s)]
Pop(s) == SubSeq(s, 1, Len(s) - 1)
Range(f) == {f[x] : x \in DOMAIN f}

\* A Box<dyn Error> made by user code in a factory body.
DomainError(e) == [domain |-> e]

\* ResolveError::for_type::<T>() applied to ResolveErrorKind::NotFound.
NotFound_AsCircular(t) == [type_name |-> t, kind |-> "CircularReferenceFound"]
NotFound(t) == [type_name |-> t, kind |-> "NotFound"]

\* ResolveError::for_type::<T>() applied to ErrorWhileResolving(cause): T is the
\* type the resolve call was made for.
ErrorWhileResolving_FactoryName(t, cause) ==
    [type_name |-> registered[Top(stack).fid], kind |-> "ErrorWhileResolving",
     cause |-> cause]
ErrorWhileResolving(t, cause) ==
    [type_name |-> t, kind |-> "ErrorWhileResolving", cause |-> cause]

\* TRUE for a ResolveError (as opposed to a domain error of a factory body).
IsResolveError(e) == "type_name" \in DOMAIN e

\* Rc::new(service): a handle with a fresh identity, for the value of type t that
\* factory `fid` built while holding the handles in `got`.
NewHandle(t, fid, got) ==
    [id |-> nalloc + 1, ty |-> t, by |-> fid, deps |-> got]

\* What a value keeps of a handle it was given (Test2.test1: Rc<Test1>).
Held(h) == [id |-> h.id, ty |-> h.ty]

\* service.clone() of an Rc: the same allocation, hence the same identity.
RcClone_DeepCopy(h) == [h EXCEPT !.id = h.id + MaxFactories + MaxTop + 1]
RcClone(h) == h

\* Rc<dyn Any>::downcast::<T>(): Ok exactly when the value in the Rc is a T.
Downcast(h, t) == h.ty = t

\* ------------------------------------------------------------- the maps
\* HashMap::remove(&type_id): the map without the key.
Remove_Keeps(m, t) == m
Remove(m, t) == [x \in (DOMAIN m) \ {t} |-> m[x]]

\* The block around factories.borrow_mut() in resolve: of the n RefMut guards taken
\* in it, how many are still alive after its closing brace, while the factory runs.
BlockEnd_GuardKept(n) == n
BlockEnd(n) == 0

\* The RefMut guards on `factories` that the resolve calls on the stack hold.
RECURSIVE Borrows(_)
Borrows(s) == IF s = << >> THEN 0 ELSE Top(s).guard + Borrows(Pop(s))

\* FrozenMap::insert(k, v): stores v under k unless k is already present.
Insert(m, t, v) == IF t \in DOMAIN m THEN m ELSE (t :> v) @@ m

\* `f.type_id()` in new, for the boxed factory f that builds type t: the TypeId of
\* Box<dyn Factory>, for every t.
FactoryKey(t) == BoxDynFactory

\* ServiceProvider::new: collect (f.type_id(), f) pairs into a HashMap; a later
\* pair replaces an earlier one with the same key.
New(fs) ==
    [k \in {FactoryKey(fs[i]) : i \in DOMAIN fs} |-> CHOOSE i \in DOMAIN fs :
        FactoryKey(fs[i]) = k /\ \A j \in DOMAIN fs : FactoryKey(fs[j]) = k => j <= i]

\* The sequences of factories a caller can hand to new.
FactorySeqs == UNION {[1..n -> Types] : n \in 0..MaxFactories}

\* ------------------------------------------------------------- Init
Init ==
    /\ registered \in FactorySeqs
    /\ factories = New(registered)
    /\ instances = << >>
    /\ stack = << >>
    /\ req = None
    /\ fret = NoRet
    /\ ret = NoRet
    /\ topreq = None
    /\ ntop = 0
    /\ nalloc = 0
    /\ invoked = [i \in DOMAIN registered |-> 0]
    /\ produced = [i \in DOMAIN registered |-> NoVal]
    /\ returned = {}
    /\ failed = {}
    /\ kept = {}

\* No call is being made, looked up or returned: the caller's code is running.
Running == req = None /\ fret = NoRet /\ ret = NoRet

\* The entries of `instances`, as (key, handle) pairs.
Entries == {[key |-> k, h |-> instances[k]] : k \in DOMAIN instances}

\* ------------------------------------------------------------- callers
\* The program calls services.resolve::<t>().
TopCall(t) ==
    /\ Running /\ stack = << >>
    /\ ntop < MaxTop
    /\ req' = t
    /\ topreq' = t
    /\ ntop' = ntop + 1
    /\ UNCHANGED <<registered, factories, instances, stack, fret, ret,
                   nalloc, invoked, produced, returned, failed, kept>>

\* The program takes the result of its resolve call, or catches its panic.
TopReturn ==
    /\ stack = << >> /\ ret # NoRet
    /\ ret' = NoRet
    /\ topreq' = None
    /\ UNCHANGED <<registered, factories, instances, stack, req, fret,
                   ntop, nalloc, invoked, produced, returned, failed, kept>>

\* The running factory body calls service_provider.resolve::<t>().
FactoryCall(t) ==
    /\ Running /\ stack # << >>
    /\ Top(stack).calls < MaxCalls
    /\ req' = t
    /\ stack' = [stack EXCEPT ![Len(stack)].calls = @ + 1]
    /\ UNCHANGED <<registered, factories, instances, fret, ret, topreq,
                   ntop, nalloc, invoked, produced, returned, failed, kept>>

\* The factory body takes the Result of its resolve call and goes on: with the
\* handle if it is Ok, without it if it is Err.
FactoryContinue ==
    /\ stack # << >> /\ ret.tag \in {"ok", "err"}
    /\ stack' = IF ret.tag = "ok"
                THEN [stack EXCEPT ![Len(stack)].got = @ \cup {Held(ret.val)}]
                ELSE stack
    /\ ret' = NoRet
    /\ UNCHANGED <<registered, factories, instances, req, fret, topreq,
                   ntop, nalloc, invoked, produced, returned, failed, kept>>

\* The factory body gets Err from its resolve call and returns it (`?`).
FactoryPropagate ==
    /\ stack # << >> /\ ret.tag = "err"
    /\ fret' = Err(ret.err)
    /\ ret' = NoRet
    /\ UNCHANGED <<registered, factories, instances, stack, req, topreq,
                   ntop, nalloc, invoked, produced, returned, failed, kept>>

\* The factory body returns Ok(value), a value of the type the factory builds;
\* Factory::resolve wraps it in a new Rc.
FactoryOk ==
    /\ Running /\ stack # << >>
    /\ LET f == Top(stack)
           h == NewHandle(registered[f.fid], f.fid, f.got)
       IN  /\ fret' = Ok(h)
           /\ produced' = [produced EXCEPT ![f.fid] = h]
    /\ nalloc' = nalloc + 1
    /\ UNCHANGED <<registered, factories, instances, stack, req, ret, topreq,
                   ntop, invoked, returned, failed, kept>>

\* The factory body returns a domain error of its own.
FactoryFail(e) ==
    /\ Running /\ stack # << >>
    /\ fret' = Err(DomainError(e))
    /\ UNCHANGED <<registered, factories, instances, stack, req, ret, topreq,
                   ntop, nalloc, invoked, produced, returned, failed, kept>>

\* ------------------------------------------------------------- resolve
\* resolve::<T>(), an entry under T in `instances` and the stored value a T:
\* return a clone of the stored handle.
ResolveCached_Takes ==
    /\ req # None
    /\ req \in DOMAIN instances
    /\ Downcast(instances[req], req)
    /\ ret' = Ok(RcClone(instances[req]))
    /\ returned' = returned \cup {[h |-> RcClone(instances[req]), via |-> "cache"]}
    /\ req' = None
    /\ instances' = Remove(instances, req)
    /\ UNCHANGED <<registered, factories, stack, fret, topreq,
                   ntop, nalloc, invoked, produced, failed, kept>>
ResolveCached ==
    /\ req # None
    /\ req \in DOMAIN instances
    /\ Downcast(instances[req], req)
    /\ ret' = Ok(RcClone(instances[req]))
    /\ returned' = returned \cup {[h |-> RcClone(instances[req]), via |-> "cache"]}
    /\ req' = None
    /\ UNCHANGED <<registered, factories, instances, stack, fret, topreq,
                   ntop, nalloc, invoked, produced, failed, kept>>

\* resolve::<T>(), an entry under T in `instances` but the stored value not a T:
\* the downcast fails and `expect` panics.
ResolveCachedPanic ==
    /\ req # None
    /\ req \in DOMAIN instances
    /\ ~Downcast(instances[req], req)
    /\ ret' = Panic
    /\ req' = None
    /\ UNCHANGED <<registered, factories, instances, stack, fret, topreq,
                   ntop, nalloc, invoked, produced, returned, failed, kept>>

\* resolve::<T>(), T neither in `instances` nor in `factories`: NotFound.
ResolveNotFound_Creates ==
    /\ req # None
    /\ req \notin DOMAIN instances
    /\ req \notin DOMAIN factories
    /\ ret' = Err(NotFound(req))
    /\ kept' = kept \cup Entries
    /\ req' = None
    /\ instances' = (req :> [id |-> 0, ty |-> req, by |-> 0, deps |-> {}]) @@ instances
    /\ UNCHANGED <<registered, factories, stack, fret, topreq,
                   ntop, nalloc, invoked, produced, returned, failed>>
ResolveNotFound ==
    /\ req # None
    /\ req \notin DOMAIN instances
    /\ req \notin DOMAIN factories
    /\ ret' = Err(NotFound(req))
    /\ kept' = kept \cup Entries
    /\ req' = None
    /\ UNCHANGED <<registered, factories, instances, stack, fret, topreq,
                   ntop, nalloc, invoked, produced, returned, failed>>

\* resolve::<T>(), T not in `instances` and a factory held under T: take the
\* factory out of the map and run it with the provider.
ResolveInvoke ==
    /\ req # None
    /\ req \notin DOMAIN instances
    /\ req \in DOMAIN factories
    /\ LET fid == factories[req]
       IN  /\ stack' = Append(stack, [ty |-> req, fid |-> fid, calls |-> 0, got |-> {},
                                   guard |-> BlockEnd(1)])
           /\ invoked' = [invoked EXCEPT ![fid] = @ + 1]
    /\ factories' = Remove(factories, req)
    /\ req' = None
    /\ UNCHANGED <<registered, instances, fret, ret, topreq,
                   ntop, nalloc, produced, returned, failed, kept>>

\* resolve::<T>() after its factory returned Ok(service), service a T: store a
\* clone of the handle under T and return the handle.
ResolveStore ==
    /\ stack # << >> /\ fret.tag = "ok"
    /\ Downcast(fret.val, Top(stack).ty)
    /\ instances' = Insert(instances, Top(stack).ty, RcClone(fret.val))
    /\ ret' = Ok(fret.val)
    /\ returned' = returned \cup {[h |-> fret.val, via |-> "factory"]}
    /\ fret' = NoRet
    /\ stack' = Pop(stack)
    /\ UNCHANGED <<registered, factories, req, topreq,
                   ntop, nalloc, invoked, produced, failed, kept>>

\* resolve::<T>() after its factory returned Ok(service), service not a T: store
\* a clone of the handle under T, then the downcast fails and `expect` panics.
\* The entry stays in `instances`.
ResolveStorePanic ==
    /\ stack # << >> /\ fret.tag = "ok"
    /\ ~Downcast(fret.val, Top(stack).ty)
    /\ instances' = Insert(instances, Top(stack).ty, RcClone(fret.val))
    /\ ret' = Panic
    /\ fret' = NoRet
    /\ stack' = Pop(stack)
    /\ UNCHANGED <<registered, factories, req, topreq,
                   ntop, nalloc, invoked, produced, returned, failed, kept>>

\* resolve::<T>() after its factory returned Err(e): return ErrorWhileResolving(e)
\* for T; nothing is stored and the factory is not put back.
ResolveFail_Restores ==
    /\ stack # << >> /\ fret.tag = "err"
    /\ ret' = Err(ErrorWhileResolving(Top(stack).ty, fret.err))
    /\ failed' = failed \cup {[ty |-> Top(stack).ty, got |-> Top(stack).got]}
    /\ kept' = kept \cup Entries
    /\ fret' = NoRet
    /\ stack' = Pop(stack)
    /\ factories' = (Top(stack).ty :> Top(stack).fid) @@ factories
    /\ UNCHANGED <<registered, instances, req, topreq,
                   ntop, nalloc, invoked, produced, returned>>
ResolveFail_StoresPartial ==
    /\ stack # << >> /\ fret.tag = "err"
    /\ ret' = Err(ErrorWhileResolving(Top(stack).ty, fret.err))
    /\ failed' = failed \cup {[ty |-> Top(stack).ty, got |-> Top(stack).got]}
    /\ kept' = kept \cup Entries
    /\ fret' = NoRet
    /\ stack' = Pop(stack)
    /\ instances' = Insert(instances, Top(stack).ty,
                           [id |-> 0, ty |-> Top(stack).ty, by |-> Top(stack).fid,
                            deps |-> Top(stack).got])
    /\ UNCHANGED <<registered, factories, req, topreq,
                   ntop, nalloc, invoked, produced, returned>>
ResolveFail ==
    /\ stack # << >> /\ fret.tag = "err"
    /\ ret' = Err(ErrorWhileResolving(Top(stack).ty, fret.err))
    /\ failed' = failed \cup {[ty |-> Top(stack).ty, got |-> Top(stack).got]}
    /\ kept' = kept \cup Entries
    /\ fret' = NoRet
    /\ stack' = Pop(stack)
    /\ UNCHANGED <<registered, factories, instances, req, topreq,
                   ntop, nalloc, invoked, produced, returned>>

\* A panic leaves resolve with no factory running: the only factory a provider
\* holds has returned by then, so the panic reaches the program itself.
Next ==
    \/ \E t \in Types : TopCall(t)
    \/ TopReturn
    \/ \E t \in Types : FactoryCall(t)
    \/ FactoryContinue
    \/ FactoryPropagate
    \/ FactoryOk
    \/ \E e \in DomainErrors : FactoryFail(e)
    \/ ResolveCached
    \/ ResolveCachedPanic
    \/ ResolveNotFound
    \/ ResolveInvoke
    \/ ResolveStore
    \/ ResolveStorePanic
    \/ ResolveFail

Spec == Init /\ [][Next]_vars
\* ------------------------------------------------------------- claims
\* The last factory in the sequence given to new that builds type t.
RegisteredFactory(t) ==
    CHOOSE i \in DOMAIN registered :
        registered[i] = t /\ \A j \in DOMAIN registered : j > i => registered[j] # t

\* TRUE when some factory given to new builds t and none that builds t has been run.
Fresh(t) ==
    /\ t \in Range(registered)
    /\ \A i \in DOMAIN registered : registered[i] = t => invoked[i] = 0

IsErr(r, kind) == r.tag = "err" /\ r.err.kind = kind

\* C1: a resolve call for a type that has neither a factory nor a stored instance
\* returns Err of kind NotFound, for that type.
C1_UnregisteredNotFound ==
    [][(req # None /\ req \notin DOMAIN factories /\ req \notin DOMAIN instances)
        => (IsErr(ret', "NotFound") /\ ret'.err.type_name = req)]_vars

\* A resolve call for a type that no factory given to new builds has returned
\* NotFound.
C1_Witness ==
    /\ IsErr(ret, "NotFound")
    /\ ret.err.type_name \notin Range(registered)
    /\ registered # << >>

\* C2: any two successful resolve calls for the same type, top-level or nested,
\* returned the identical handle (same allocation).
C2_Singleton ==
    \A r1, r2 \in returned : r1.h.ty = r2.h.ty => r1.h.id = r2.h.id

\* A type was returned by the call that built it and again, from the stored
\* instance, by a later call.
C2_Witness ==
    /\ stack = << >>
    /\ ret.tag = "ok"
    /\ [h |-> ret.val, via |-> "cache"] \in returned
    /\ \E r \in returned : r.via = "factory" /\ r.h.ty = ret.val.ty

\* The types whose resolve call ran a factory that returned Err.
FailedTypes == {f.ty : f \in failed}

\* C3: over the provider's lifetime no factory is run twice, and of the factories
\* that build one type at most one is ever run.
C3_FactoryAtMostOnce ==
    \A i, j \in DOMAIN registered :
        registered[i] = registered[j] =>
            IF i = j THEN invoked[i] <= 1 ELSE invoked[i] + invoked[j] <= 1

\* A factory was run once and failed, and a later top-level call for the same
\* type has returned without running anything again.
C3_Witness ==
    /\ ntop >= 2 /\ stack = << >>
    /\ ret.tag = "err"
    /\ ret.err.type_name \in FailedTypes
    /\ \E i \in DOMAIN registered : invoked[i] = 1
    /\ ret.err.type_name \notin DOMAIN instances

\* C4 (as claimed): a resolve call for A made by the running factory of A (the
\* factory that resolve<A>() is running, or one that builds A) returns Err of kind
\* CircularReferenceFound and runs no factory.
C4_SelfCycleCircular ==
    [][(req # None /\ stack # << >>
            /\ (Top(stack).ty = req \/ registered[Top(stack).fid] = req))
        => (IsErr(ret', "CircularReferenceFound") /\ invoked' = invoked)]_vars

\* C5 (as claimed): with A1's factory resolving A2, ..., AN's factory resolving A1
\* (N >= 2), the chain of calls is made (a running factory's call for a type whose
\* factory is registered and was never run runs that factory) and the innermost
\* call resolve<A1>() returns Err of kind CircularReferenceFound.
C5_LongCycleCircular ==
    [][/\ (req # None /\ stack # << >> /\ Fresh(req))
              => invoked'[RegisteredFactory(req)] = 1
       /\ (req # None /\ Len(stack) >= 2 /\ stack[1].ty = req)
              => IsErr(ret', "CircularReferenceFound")]_vars

\* The error of a top-level resolve<A>() whose factory propagated the error of
\* resolve<B>(), whose factory propagated the error of resolve<A>().
IsMutualCycleError(e) ==
    /\ e.kind = "ErrorWhileResolving"
    /\ IsResolveError(e.cause)
    /\ e.cause.type_name # e.type_name
    /\ e.cause.kind = "ErrorWhileResolving"
    /\ IsResolveError(e.cause.cause)
    /\ e.cause.cause.type_name = e.type_name
    /\ e.cause.cause.kind # "ErrorWhileResolving"

\* TRUE when e, or an error on its chain of causes, is a ResolveError of this kind.
RECURSIVE HasKind(_, _)
HasKind(e, kind) ==
    /\ IsResolveError(e)
    /\ \/ e.kind = kind
       \/ (e.kind = "ErrorWhileResolving" /\ HasKind(e.cause, kind))

\* C6 (as claimed): when A's factory resolves B, B's factory resolves A and both
\* propagate the error, the top-level resolve<A>() fails with CircularReferenceFound
\* (read at its weakest: as the kind of the error or of one of its causes).  The
\* failure of that call is either the error handed back through the two factories
\* or, when no factory was run at all, the error of the call itself.
C6_MutualCycleTopLevel ==
    (/\ stack = << >> /\ ret.tag = "err"
     /\ topreq \in Range(registered)
     /\ \/ IsMutualCycleError(ret.err)
        \/ \A i \in DOMAIN registered : invoked[i] = 0)
    => HasKind(ret.err, "CircularReferenceFound")

\* C7: when the factory run by a resolve call for T returns Err(e), that call
\* returns Err of kind ErrorWhileResolving with cause e and the name of T, the
\* type the call was made for.
C7_FactoryErrorWrapped ==
    [][(stack # << >> /\ fret.tag = "err")
        => (/\ IsErr(ret', "ErrorWhileResolving")
            /\ ret'.err.cause = fret.err
            /\ ret'.err.type_name = Top(stack).ty)]_vars

\* The factory that builds T, run by resolve<T>(), returned a domain error, and
\* the call returned it wrapped under T's name.
C7_Witness ==
    /\ stack = << >>
    /\ IsErr(ret, "ErrorWhileResolving")
    /\ ret.err.cause \in {DomainError(e) : e \in DomainErrors}
    /\ ret.err.type_name = topreq
    /\ registered # << >>
    /\ registered[Len(registered)] = topreq
    /\ invoked[Len(registered)] = 1

\* C8 (as claimed): the first resolve call on a fresh provider, for a type T that
\* a registered factory builds, runs T's factory; it fails only with that
\* factory's failure, and when the factory returned a value the call returns Ok
\* with the handle of that value.
C8_FirstResolveReturnsFactoryValue ==
    (ntop = 1 /\ stack = << >> /\ ret # NoRet /\ topreq \in Range(registered)) =>
        LET fid == RegisteredFactory(topreq)
        IN  /\ invoked[fid] = 1
            /\ ret.tag = "err" =>
                  (ret.err.kind = "ErrorWhileResolving" /\ ret.err.type_name = topreq)
            /\ produced[fid] # NoVal =>
                  (ret = Ok(produced[fid]) /\ ret.val.by = fid /\ ret.val.ty = topreq)

\* C9 (as claimed): the factory of A can resolve B (its call for a type whose
\* factory is registered and was never run is not answered NotFound), and once a
\* successfully resolved A holds a handle of B that its factory got from
\* resolve<B>(), a direct resolve<B>() returns Ok with that same handle and runs
\* no factory.
C9_DependencyShared ==
    [][/\ (req # None /\ stack # << >> /\ Fresh(req)) => ~IsErr(ret', "NotFound")
       /\ (req # None /\ stack = << >>)
              => \A r \in returned : \A d \in r.h.deps :
                    d.ty = req =>
                      (/\ ret'.tag = "ok"
                       /\ Held(ret'.val) = d
                       /\ invoked' = invoked)]_vars

\* C10: the step in which a resolve call returns NotFound changes neither the
\* factory map nor the instance map.
C10_NotFoundNoEffect ==
    [][(req # None /\ IsErr(ret', "NotFound"))
        => (factories' = factories /\ instances' = instances)]_vars

\* A call returned NotFound on a provider that holds a factory.
C10_Witness ==
    /\ IsErr(ret, "NotFound")
    /\ DOMAIN factories # {}

\* C11 (as claimed): when T's factory fails, resolve<T>() returns
\* ErrorWhileResolving and T still has an entry in the registry.
C11_FailedEntryKept ==
    [][(stack # << >> /\ fret.tag = "err")
        => (/\ IsErr(ret', "ErrorWhileResolving")
            /\ Top(stack).ty \in (DOMAIN factories') \cup (DOMAIN instances'))]_vars

\* C11 (amended): when the factory run by resolve<T>() fails, the call returns
\* ErrorWhileResolving for T and T is left with no entry at all: the factory is
\* not put back and no instance is stored.
C11_FailedEntryRemoved ==
    [][(stack # << >> /\ fret.tag = "err")
        => (/\ IsErr(ret', "ErrorWhileResolving")
            /\ ret'.err.type_name = Top(stack).ty
            /\ Top(stack).ty \notin DOMAIN factories'
            /\ Top(stack).ty \notin DOMAIN instances')]_vars

\* A call has returned ErrorWhileResolving for a type that now has neither a
\* factory nor an instance.
C11_Witness ==
    /\ IsErr(ret, "ErrorWhileResolving")
    /\ ret.err.type_name \in FailedTypes
    /\ ret.err.type_name \notin (DOMAIN factories) \cup (DOMAIN instances)

\* C12: once the factory run for T has failed, T never gets an instance or a
\* factory again, and every later resolve<T>() returns Err of kind
\* CircularReferenceFound or NotFound without running a factory.
C12_Poisoned ==
    [][/\ \A t \in FailedTypes :
              t \notin DOMAIN instances' /\ t \notin DOMAIN factories'
       /\ (req # None /\ req \in FailedTypes)
              => (/\ ret'.tag = "err"
                  /\ ret'.err.kind \in {"CircularReferenceFound", "NotFound"}
                  /\ ret'.err.type_name = req
                  /\ invoked' = invoked)]_vars

\* A later top-level call for a type whose factory failed has returned NotFound.
C12_Witness ==
    /\ stack = << >> /\ ntop >= 2
    /\ IsErr(ret, "NotFound")
    /\ ret.err.type_name \in FailedTypes
    /\ ret.err.type_name = topreq

\* C13 (as claimed): the step in which a resolve call fails changes no stored
\* instance; an entry that was stored when a call failed stays stored with the
\* same handle; and a later resolve of it returns Ok with that handle.
C13_FailureKeepsResolved ==
    [][/\ (ret = NoRet /\ ret'.tag = "err") => instances' = instances
       /\ \A e \in kept' :
              e.key \in DOMAIN instances' /\ instances'[e.key] = e.h
       /\ req # None
              => \A e \in kept : e.key = req => ret' = Ok(e.h)]_vars

\* C14: a step in which a factory returned Err stores nothing, and an instance
\* appears for T only in the step in which the factory run for T returned Ok,
\* and it is the handle of the value that factory returned.
C14_NoPartialSuccess ==
    [][/\ (stack # << >> /\ fret.tag = "err") => instances' = instances
       /\ \A t \in (DOMAIN instances') \ (DOMAIN instances) :
              /\ stack # << >>
              /\ fret.tag = "ok"
              /\ Top(stack).ty = t
              /\ instances'[t] = fret.val]_vars

\* A factory that made two resolve calls failed with the error of one of them,
\* and nothing is stored for its type.
C14_Witness ==
    /\ IsErr(ret, "ErrorWhileResolving")
    /\ IsResolveError(ret.err.cause)
    /\ ret.err.type_name \in FailedTypes
    /\ ret.err.type_name \notin DOMAIN instances
    /\ ntop = 1

\* TRUE when every handle in `got` is the stored instance of its type.
AllStored(got) ==
    \A d \in got : d.ty \in DOMAIN instances /\ Held(instances[d.ty]) = d

\* C15 (as claimed): when a factory is run, the call that runs it is the only one
\* in flight and is nested directly in the factory that made it, and every handle
\* that factory was given before is stored; when an instance is stored, every
\* handle its factory was given is stored already; and when a factory's call for
\* B, a type some registered factory builds, hands back an error, B's resolution
\* is over: a factory that builds B has been run.
C15_DepthFirst ==
    [][/\ invoked' # invoked =>
              /\ req # None /\ ret = NoRet /\ fret = NoRet
              /\ Len(stack') = Len(stack) + 1
              /\ SubSeq(stack', 1, Len(stack)) = stack
              /\ Top(stack').ty = req
              /\ stack # << >> => AllStored(Top(stack).got)
       /\ instances' # instances =>
              /\ stack # << >>
              /\ AllStored(Top(stack).got)
       /\ (stack' # << >> /\ ret = NoRet /\ ret'.tag = "err"
              /\ ret'.err.type_name \in Range(registered))
              => \E i \in DOMAIN registered :
                    registered[i] = ret'.err.type_name /\ invoked'[i] > 0]_vars

\* C16: a resolve call for a type that has a stored instance runs no factory and
\* leaves both maps and the stack as they were; what it returns with Ok is the
\* stored instance.
C16_FastPath ==
    [][(req # None /\ req \in DOMAIN instances)
        => (/\ ret' # NoRet
            /\ ret'.tag = "ok" => ret' = Ok(instances[req])
            /\ invoked' = invoked
            /\ factories' = factories
            /\ instances' = instances
            /\ stack' = stack)]_vars

\* A top-level call was answered from the stored instance.
C16_Witness ==
    /\ stack = << >>
    /\ ret.tag = "ok"
    /\ [h |-> ret.val, via |-> "cache"] \in returned
    /\ topreq \in DOMAIN instances /\ instances[topreq] = ret.val
    /\ ntop >= 2

\* C17 (as claimed): after construction the factory map has one entry per type
\* that a registered factory builds; the entry of a type is the last factory
\* registered for it, and no other factory is ever run.
C17_LastRegistrationWins ==
    /\ ntop = 0 => DOMAIN factories = Range(registered)
    /\ \A t \in DOMAIN factories :
          t \in Range(registered) /\ factories[t] = RegisteredFactory(t)
    /\ \A i \in DOMAIN registered :
          invoked[i] > 0 => i = RegisteredFactory(registered[i])

\* C18: no type has both a factory and a stored instance; a factory's value is
\* never stored over an existing instance; and every handle a resolve call has
\* returned is the stored instance of its type.
C18_FactoryXorInstance ==
    /\ (DOMAIN factories) \cap (DOMAIN instances) = {}
    /\ (stack # << >> /\ fret.tag = "ok") => Top(stack).ty \notin DOMAIN instances
    /\ \A r \in returned :
          r.h.ty \in DOMAIN instances /\ instances[r.h.ty] = r.h

\* The call that ran a factory has stored the factory's value and returned it, and
\* the type is left with an instance and no factory.
C18_Witness ==
    /\ stack = << >>
    /\ ret.tag = "ok"
    /\ [h |-> ret.val, via |-> "factory"] \in returned
    /\ ret.val.ty \in DOMAIN instances /\ instances[ret.val.ty] = ret.val
    /\ ret.val.ty \notin DOMAIN factories
    /\ ntop = 1

\* C19: no resolve call on the stack holds a guard on the factory map while its
\* factory runs, so the map is not borrowed when a call reaches borrow_mut.
C19_NoDoubleBorrow ==
    /\ \A i \in DOMAIN stack : stack[i].guard = 0
    /\ (req # None /\ req \notin DOMAIN instances) => Borrows(stack) = 0

\* A call made by a running factory is about to borrow the factory map.
C19_Witness ==
    /\ req # None /\ req \notin DOMAIN instances
    /\ stack # << >>

\* The number of factory runs so far.
RECURSIVE InvokedUpTo(_)
InvokedUpTo(n) == IF n = 0 THEN 0 ELSE invoked[n] + InvokedUpTo(n - 1)

RECURSIVE CallsLeft(_)
CallsLeft(s) ==
    IF s = << >> THEN 0
    ELSE 3 * (MaxCalls - Top(s).calls) + 3 + CallsLeft(Pop(s))

\* A bound on the steps the resolve call in progress can still take, given that a
\* factory body makes at most MaxCalls resolve calls.
Work ==
    (3 * MaxCalls + 3) * Cardinality(DOMAIN factories) + CallsLeft(stack)
    + (IF req # None THEN 3 ELSE IF ret # NoRet THEN 2 ELSE IF fret # NoRet THEN 0 ELSE 1)

\* C20: the factories running at once and the factory runs in total never exceed
\* the number of factories the provider was built with, and every step other
\* than the program making a new top-level call decreases Work, so every call
\* returns.
C20_Terminates ==
    [][/\ Len(stack') <= Len(registered)
       /\ InvokedUpTo(Len(registered))' <= Len(registered)
       /\ ntop' = ntop => Work' < Work]_vars

\* On a provider built from one factory, that factory is running: as many
\* factories are running, and have been run, as were registered.
C20_Witness ==
    /\ Len(registered) = 1
    /\ Len(stack) = Len(registered)
    /\ InvokedUpTo(Len(registered)) = Len(registered)
    /\ Top(stack).calls = MaxCalls

====
